---- MODULE Spec2Model ----
(***************************************************************************)
(* Model of src/main.py: the session idle/timeout monitor of the AndrofitAI *)
(* voice agent (class SessionManager and the coroutine entrypoint).         *)
(*                                                                          *)
(* The program is one asyncio coroutine (entrypoint) plus four synchronous  *)
(* event callbacks.  asyncio is single threaded: a callback can run only    *)
(* while the coroutine is suspended at an await.  The variable pc names the *)
(* await the coroutine is suspended at; the two values "loop" and           *)
(* "check_timeout" are positions inside a synchronous stretch of code, at   *)
(* which neither a callback nor the clock may take a step.                  *)
(*                                                                          *)
(* Time: time.time() is modelled at a resolution of one second.  The code   *)
(* truncates differences with int() and compares them with the integer      *)
(* thresholds only (int(d) >= n iff d >= n for an integer n), so the        *)
(* truncation is applied by int below on whole seconds.  The variable now   *)
(* is the clock as the program last saw it: the time that passes during an  *)
(* await is added by the step that ends the await (the awaited call or      *)
(* sleep returning) or by a callback that runs during it, d seconds after   *)
(* the previous step.                                                       *)
(***************************************************************************)
EXTENDS Integers, Naturals, Sequences, FiniteSets, TLC

\* ---------------------------------------------------------------- bounds
\* The clock stops advancing at MaxTime (the code itself has no such limit).
MaxTime == 309
\* Longest time an awaited external call (start, say, disconnect, end) takes.
MaxCallTime == 1

\* ------------------------------------------- MemoryOptimizedConfig etc.
SESSION_TIMEOUT == 300
IDLE_TIMEOUT == 60
WARNING_TIME == 45
HEALTH_CHECK_INTERVAL == 5
\* asyncio.sleep(2) before the disconnect, asyncio.sleep(1) after an error
GRACEFUL_DELAY == 2
BACKOFF_DELAY == 1

\* The texts passed to session.say
GREETING == "Hey! I'm AndrofitAI. Ready to crush your workout?"
WARNING == "Are you still there? Let's keep going!"
IDLE_CLOSING == "Thanks for the great workout! Stay strong!"
MAX_CLOSING == "Great session! Time's up. Keep crushing those goals!"

VARIABLES
    now,                    \* time.time(), in seconds, as last seen by the program
    session_start_time,     \* SessionManager.session_start_time
    last_interaction_time,  \* SessionManager.last_interaction_time
    warning_sent,           \* SessionManager.warning_sent
    is_agent_speaking,      \* SessionManager.is_agent_speaking
    is_user_speaking,       \* SessionManager.is_user_speaking
    connection_state,       \* ctx.room.connection_state
    pc,                     \* where the coroutine entrypoint is
    timer,                  \* time left of the current await, at most
    exc,                    \* an exception is propagating out of the async with
    caught,                 \* the call whose error the except clause of the loop is
                            \* handling (e of except Exception as e), or "none"
    session,                \* the local session of create_optimized_session: "none" or "live"
    saying,                 \* the text of the session.say call being awaited, or "none"
    warnings,               \* history: warnings said since last_interaction_time was set
    last_event_time,        \* history: time of the most recent speaking event, -1 if none
    event,                  \* history: the speaking event whose callback ran in the step
                            \* just taken, "none" if the step was none of a callback
    late_event,             \* history: the step just taken was a speaking event that came
                            \* when WARNING_TIME <= idle time < IDLE_TIMEOUT
    ends,                   \* history: number of awaits of session.end() that have ended
    closing                 \* history: "none" until a closing message is said, "said" when
                            \* the first one is said, "failed" once the say or the disconnect
                            \* of a shutdown has raised, "repeated" when a closing message is
                            \* said after that

vars == <<now, session_start_time, last_interaction_time, warning_sent,
          is_agent_speaking, is_user_speaking, connection_state, pc, timer,
          exc, caught, session, saying, warnings, last_event_time, event, late_event,
          ends, closing>>

manager == <<session_start_time, last_interaction_time, warning_sent,
             is_agent_speaking, is_user_speaking>>
history == <<warnings, last_event_time>>
lifecycle == <<session, ends, closing>>

\* ------------------------------------------------------- SessionManager
\* int(): truncation toward zero
int(x) == IF x >= 0 THEN x ELSE -(-x)

get_idle_time == int(now - last_interaction_time)

get_session_duration == int(now - session_start_time)

should_send_warning_ignoring_speech ==
    /\ get_idle_time >= WARNING_TIME
    /\ ~warning_sent

should_send_warning ==
    /\ get_idle_time >= WARNING_TIME
    /\ ~warning_sent
    /\ ~is_agent_speaking
    /\ ~is_user_speaking

idle_timeout_at_warning_time ==
    /\ get_idle_time >= WARNING_TIME
    /\ ~is_agent_speaking
    /\ ~is_user_speaking

idle_timeout ==
    /\ get_idle_time >= IDLE_TIMEOUT
    /\ ~is_agent_speaking
    /\ ~is_user_speaking

session_timeout_unless_speaking ==
    /\ get_session_duration >= SESSION_TIMEOUT
    /\ ~is_agent_speaking
    /\ ~is_user_speaking

session_timeout == get_session_duration >= SESSION_TIMEOUT

should_timeout_ignoring_speech ==
    get_idle_time >= IDLE_TIMEOUT \/ session_timeout

should_timeout_session == idle_timeout \/ session_timeout

reset_keeping_warning_sent ==
    /\ last_interaction_time' = now'
    /\ warning_sent' = warning_sent

\* reads the clock: now' is the time at which the caller runs
reset_interaction_timer ==
    /\ last_interaction_time' = now'
    /\ warning_sent' = FALSE

\* -------------------------------------------------- positions of the coroutine
\* awaits of an external call: it returns or raises after 0..MaxCallTime
CallPcs == {"start", "greeting", "say_warning", "say_closing", "disconnect",
            "end_session", "except_disconnect"}
\* awaits of asyncio.sleep: it returns when its time is up
SleepPcs == {"health_sleep", "grace_sleep", "backoff"}
ListenPcs_with_synchronous_positions ==
    {"start", "greeting", "say_warning", "say_closing", "disconnect",
     "health_sleep", "grace_sleep", "backoff", "end_session", "loop", "check_timeout"}

\* awaits at which the session can deliver a speaking event to the callbacks
ListenPcs == {"start", "greeting", "say_warning", "say_closing", "disconnect",
              "health_sleep", "grace_sleep", "backoff", "end_session"}
\* positions inside the while loop of entrypoint
LoopPcs == {"loop", "check_timeout", "say_warning", "say_closing",
            "grace_sleep", "disconnect", "health_sleep", "backoff"}

Init ==
    /\ now = 0
    /\ session_start_time = now
    /\ last_interaction_time = now
    /\ warning_sent = FALSE
    /\ is_agent_speaking = FALSE
    /\ is_user_speaking = FALSE
    /\ connection_state = "connected"
    /\ pc = "create"
    /\ timer = 0
    /\ exc = FALSE
    /\ caught = "none"
    /\ session = "none"
    /\ saying = "none"
    /\ warnings = 0
    /\ last_event_time = -1
    /\ event = "none"
    /\ late_event = FALSE
    /\ ends = 0
    /\ closing = "none"

\* ---------------------------------------------------------- environment
\* d seconds of the current await pass before a callback reads the clock.
Pass(d) ==
    /\ now + d <= MaxTime
    /\ now' = now + d
    /\ timer' = timer - d

\* The awaited external call ends (returns or raises) after at most timer seconds.
CallEnds == \E d \in 0..timer : now + d <= MaxTime /\ now' = now + d

\* The awaited asyncio.sleep returns when its time is up.
SleepEnds == now + timer <= MaxTime /\ now' = now + timer

\* what a step that is not a callback leaves in the history variables
NoCallback == event' = "none" /\ late_event' = FALSE

\* While the coroutine is suspended the room may lose its connection (remote
\* hang-up, network); the program sees it when it next reads connection_state.
RoomMayDrop == connection_state' \in {connection_state, "disconnected"}

\* ------------------------------------------------------ event callbacks
\* what the callback of event e adds to the history variables
Recorded(e) ==
    /\ event' = e
    /\ warnings' = 0
    /\ last_event_time' = now'
    /\ late_event' = /\ pc \in LoopPcs
                     /\ now' - last_interaction_time >= WARNING_TIME
                     /\ now' - last_interaction_time < IDLE_TIMEOUT

on_user_started_speaking_without_reset ==
    /\ pc \in ListenPcs
    /\ \E d \in 0..timer : Pass(d)
    /\ is_user_speaking' = TRUE
    /\ Recorded("user_started_speaking")
    /\ UNCHANGED <<session_start_time, last_interaction_time, warning_sent,
                   is_agent_speaking, connection_state, pc, exc, saying, lifecycle, caught>>

on_user_started_speaking ==
    /\ pc \in ListenPcs
    /\ \E d \in 0..timer : Pass(d)
    /\ is_user_speaking' = TRUE
    /\ reset_interaction_timer
    /\ Recorded("user_started_speaking")
    /\ UNCHANGED <<session_start_time, is_agent_speaking, connection_state,
                   pc, exc, saying, lifecycle, caught>>

on_user_stopped_speaking ==
    /\ pc \in ListenPcs
    /\ \E d \in 0..timer : Pass(d)
    /\ is_user_speaking' = FALSE
    /\ reset_interaction_timer
    /\ Recorded("user_stopped_speaking")
    /\ UNCHANGED <<session_start_time, is_agent_speaking, connection_state,
                   pc, exc, saying, lifecycle, caught>>

on_agent_started_speaking ==
    /\ pc \in ListenPcs
    /\ \E d \in 0..timer : Pass(d)
    /\ is_agent_speaking' = TRUE
    /\ reset_interaction_timer
    /\ Recorded("agent_started_speaking")
    /\ UNCHANGED <<session_start_time, is_user_speaking, connection_state,
                   pc, exc, saying, lifecycle, caught>>

on_agent_stopped_speaking_without_reset ==
    /\ pc \in ListenPcs
    /\ \E d \in 0..timer : Pass(d)
    /\ is_agent_speaking' = FALSE
    /\ Recorded("agent_stopped_speaking")
    /\ UNCHANGED <<session_start_time, last_interaction_time, warning_sent,
                   is_user_speaking, connection_state, pc, exc, saying, lifecycle, caught>>

on_agent_stopped_speaking ==
    /\ pc \in ListenPcs
    /\ \E d \in 0..timer : Pass(d)
    /\ is_agent_speaking' = FALSE
    /\ reset_interaction_timer
    /\ Recorded("agent_stopped_speaking")
    /\ UNCHANGED <<session_start_time, is_user_speaking, connection_state,
                   pc, exc, saying, lifecycle, caught>>

\* ------------------------------------------------------------ entrypoint
LeavesSession_skipping_end ==
    /\ pc' = "except_disconnect"
    /\ timer' = MaxCallTime
    /\ exc' = TRUE

\* An exception leaves the async with: create_optimized_session logs and
\* re-raises it and its finally awaits session.end().
LeavesSession ==
    /\ pc' = "end_session"
    /\ timer' = MaxCallTime
    /\ exc' = TRUE

Propagates == LeavesSession /\ caught' = pc

\* except Exception as e: (of the while loop) ... await asyncio.sleep(1); continue
Caught ==
    /\ pc' = "backoff"
    /\ timer' = BACKOFF_DELAY
    /\ caught' = pc
    /\ exc' = exc

\* async with create_optimized_session(ctx): AgentSession(...) is built, the
\* callbacks are registered and session.start is awaited.
CreateSessionReturns ==
    /\ pc = "create"
    /\ pc' = "start"
    /\ timer' = MaxCallTime
    /\ session' = "live"
    /\ NoCallback
    /\ UNCHANGED <<now, manager, connection_state, exc, saying, history, ends, closing, caught>>

\* AgentSession(...) raises: session is None, so the finally skips session.end(),
\* and the except of entrypoint runs.
CreateSessionRaises ==
    /\ pc = "create"
    /\ pc' = IF connection_state = "connected" THEN "except_disconnect" ELSE "raised"
    /\ timer' = IF connection_state = "connected" THEN MaxCallTime ELSE 0
    /\ exc' = TRUE
    /\ NoCallback
    /\ UNCHANGED <<now, manager, connection_state, saying, history, lifecycle, caught>>

\* await session.start(...) returns: the greeting is said.
StartReturns ==
    /\ pc = "start"
    /\ CallEnds
    /\ RoomMayDrop
    /\ pc' = "greeting"
    /\ saying' = GREETING
    /\ timer' = MaxCallTime
    /\ NoCallback
    /\ UNCHANGED <<manager, exc, history, lifecycle, caught>>

StartRaises ==
    /\ pc = "start"
    /\ CallEnds
    /\ RoomMayDrop
    /\ LeavesSession
    /\ NoCallback
    /\ UNCHANGED <<manager, saying, history, lifecycle, caught>>

GreetingReturns_restarting_session_clock ==
    /\ pc = "greeting"
    /\ CallEnds
    /\ RoomMayDrop
    /\ reset_interaction_timer
    /\ session_start_time' = now'
    /\ warnings' = 0
    /\ pc' = "loop"
    /\ timer' = 0
    /\ saying' = "none"
    /\ NoCallback
    /\ UNCHANGED <<is_agent_speaking, is_user_speaking, exc, last_event_time,
                   lifecycle, caught>>

\* await session.say(greeting) returns: session_manager.reset_interaction_timer()
GreetingReturns ==
    /\ pc = "greeting"
    /\ CallEnds
    /\ RoomMayDrop
    /\ reset_interaction_timer
    /\ warnings' = 0
    /\ pc' = "loop"
    /\ timer' = 0
    /\ saying' = "none"
    /\ NoCallback
    /\ UNCHANGED <<session_start_time, is_agent_speaking, is_user_speaking,
                   exc, last_event_time, lifecycle, caught>>

GreetingRaises ==
    /\ pc = "greeting"
    /\ CallEnds
    /\ RoomMayDrop
    /\ LeavesSession
    /\ saying' = "none"
    /\ NoCallback
    /\ UNCHANGED <<manager, history, lifecycle, caught>>

LoopHead_leaving_warning_sent ==
    /\ pc = "loop"
    /\ IF connection_state # "connected"
       THEN /\ pc' = "end_session"
            /\ timer' = MaxCallTime
            /\ UNCHANGED <<warning_sent, saying, warnings>>
       ELSE IF should_send_warning
       THEN /\ warning_sent' = warning_sent
            /\ saying' = WARNING
            /\ warnings' = IF warnings < 2 THEN warnings + 1 ELSE warnings
            /\ pc' = "say_warning"
            /\ timer' = MaxCallTime
       ELSE /\ pc' = "check_timeout"
            /\ timer' = 0
            /\ UNCHANGED <<warning_sent, saying, warnings>>
    /\ NoCallback
    /\ UNCHANGED <<now, session_start_time, last_interaction_time, is_agent_speaking,
                   is_user_speaking, connection_state, exc, last_event_time, lifecycle, caught>>

LoopHead_checking_timeout_first ==
    /\ pc = "loop"
    /\ IF connection_state # "connected"
       THEN /\ pc' = "end_session"
            /\ timer' = MaxCallTime
            /\ UNCHANGED <<warning_sent, saying, warnings>>
       ELSE IF should_send_warning /\ ~should_timeout_session
       THEN /\ warning_sent' = TRUE
            /\ saying' = WARNING
            /\ warnings' = IF warnings < 2 THEN warnings + 1 ELSE warnings
            /\ pc' = "say_warning"
            /\ timer' = MaxCallTime
       ELSE /\ pc' = "check_timeout"
            /\ timer' = 0
            /\ UNCHANGED <<warning_sent, saying, warnings>>
    /\ NoCallback
    /\ UNCHANGED <<now, session_start_time, last_interaction_time, is_agent_speaking,
                   is_user_speaking, connection_state, exc, last_event_time, lifecycle, caught>>

LoopHead_ignoring_connection_state ==
    /\ pc = "loop"
    /\ IF should_send_warning
       THEN /\ warning_sent' = TRUE
            /\ saying' = WARNING
            /\ warnings' = IF warnings < 2 THEN warnings + 1 ELSE warnings
            /\ pc' = "say_warning"
            /\ timer' = MaxCallTime
       ELSE /\ pc' = "check_timeout"
            /\ timer' = 0
            /\ UNCHANGED <<warning_sent, saying, warnings>>
    /\ NoCallback
    /\ UNCHANGED <<now, session_start_time, last_interaction_time, is_agent_speaking,
                   is_user_speaking, connection_state, exc, last_event_time, lifecycle, caught>>

\* while ctx.room.connection_state == "connected": ... if should_send_warning():
\* warning_sent = True; await session.say(warning)
LoopHead ==
    /\ pc = "loop"
    /\ IF connection_state # "connected"
       THEN /\ pc' = "end_session"
            /\ timer' = MaxCallTime
            /\ UNCHANGED <<warning_sent, saying, warnings>>
       ELSE IF should_send_warning
       THEN /\ warning_sent' = TRUE
            /\ saying' = WARNING
            /\ warnings' = IF warnings < 2 THEN warnings + 1 ELSE warnings
            /\ pc' = "say_warning"
            /\ timer' = MaxCallTime
       ELSE /\ pc' = "check_timeout"
            /\ timer' = 0
            /\ UNCHANGED <<warning_sent, saying, warnings>>
    /\ NoCallback
    /\ UNCHANGED <<now, session_start_time, last_interaction_time, is_agent_speaking,
                   is_user_speaking, connection_state, exc, last_event_time, lifecycle, caught>>

\* await session.say(warning) returns
WarningReturns ==
    /\ pc = "say_warning"
    /\ CallEnds
    /\ RoomMayDrop
    /\ pc' = "check_timeout"
    /\ timer' = 0
    /\ saying' = "none"
    /\ NoCallback
    /\ UNCHANGED <<manager, exc, history, lifecycle, caught>>

\* await session.say(warning) raises, into the except of the loop
WarningRaises ==
    /\ pc = "say_warning"
    /\ CallEnds
    /\ RoomMayDrop
    /\ Caught
    /\ saying' = "none"
    /\ NoCallback
    /\ UNCHANGED <<manager, history, lifecycle>>

\* if should_timeout_session(): say the closing message; else sleep.
CheckTimeout ==
    /\ pc = "check_timeout"
    /\ IF should_timeout_session
       THEN /\ saying' = IF get_idle_time >= IDLE_TIMEOUT THEN IDLE_CLOSING ELSE MAX_CLOSING
            /\ closing' = IF closing = "none" THEN "said" ELSE "repeated"
            /\ pc' = "say_closing"
            /\ timer' = MaxCallTime
       ELSE /\ pc' = "health_sleep"
            /\ timer' = HEALTH_CHECK_INTERVAL
            /\ UNCHANGED <<saying, closing>>
    /\ NoCallback
    /\ UNCHANGED <<now, manager, connection_state, exc, history, session, ends, caught>>

ClosingReturns_falling_through ==
    /\ pc = "say_closing"
    /\ CallEnds
    /\ RoomMayDrop
    /\ pc' = "health_sleep"
    /\ timer' = HEALTH_CHECK_INTERVAL
    /\ saying' = "none"
    /\ NoCallback
    /\ UNCHANGED <<manager, exc, history, lifecycle, caught>>

\* await session.say(closing) returns: await asyncio.sleep(2)
ClosingReturns ==
    /\ pc = "say_closing"
    /\ CallEnds
    /\ RoomMayDrop
    /\ pc' = "grace_sleep"
    /\ timer' = GRACEFUL_DELAY
    /\ saying' = "none"
    /\ NoCallback
    /\ UNCHANGED <<manager, exc, history, lifecycle, caught>>

ClosingRaises ==
    /\ pc = "say_closing"
    /\ CallEnds
    /\ RoomMayDrop
    /\ Caught
    /\ saying' = "none"
    /\ closing' = "failed"
    /\ NoCallback
    /\ UNCHANGED <<manager, history, session, ends>>

GraceSleepDone_rechecking_the_timeout ==
    /\ pc = "grace_sleep"
    /\ SleepEnds
    /\ RoomMayDrop
    /\ pc' = IF should_timeout_session THEN "disconnect" ELSE "loop"
    /\ timer' = IF should_timeout_session THEN MaxCallTime ELSE 0
    /\ NoCallback
    /\ UNCHANGED <<manager, exc, saying, history, lifecycle, caught>>

\* asyncio.sleep(2) returns: await ctx.room.disconnect()
GraceSleepDone ==
    /\ pc = "grace_sleep"
    /\ SleepEnds
    /\ RoomMayDrop
    /\ pc' = "disconnect"
    /\ timer' = MaxCallTime
    /\ NoCallback
    /\ UNCHANGED <<manager, exc, saying, history, lifecycle, caught>>

\* ctx.room.disconnect() returns: break, which leaves the async with
DisconnectReturns ==
    /\ pc = "disconnect"
    /\ CallEnds
    /\ connection_state' = "disconnected"
    /\ pc' = "end_session"
    /\ timer' = MaxCallTime
    /\ NoCallback
    /\ UNCHANGED <<manager, exc, saying, history, lifecycle, caught>>

DisconnectRaises_leaving_the_loop ==
    /\ pc = "disconnect"
    /\ CallEnds
    /\ RoomMayDrop
    /\ pc' = "end_session"
    /\ timer' = MaxCallTime
    /\ closing' = "failed"
    /\ NoCallback
    /\ UNCHANGED <<manager, exc, caught, saying, history, session, ends>>

\* ctx.room.disconnect() raises, into the except of the loop
DisconnectRaises ==
    /\ pc = "disconnect"
    /\ CallEnds
    /\ RoomMayDrop
    /\ Caught
    /\ closing' = "failed"
    /\ NoCallback
    /\ UNCHANGED <<manager, saying, history, session, ends>>

\* asyncio.sleep(HEALTH_CHECK_INTERVAL) returns; the stats are logged.
HealthSleepDone ==
    /\ pc = "health_sleep"
    /\ SleepEnds
    /\ RoomMayDrop
    /\ pc' = "loop"
    /\ timer' = 0
    /\ NoCallback
    /\ UNCHANGED <<manager, exc, saying, history, lifecycle, caught>>

\* asyncio.sleep(1) of the except clause returns: continue
BackoffDone ==
    /\ pc = "backoff"
    /\ SleepEnds
    /\ RoomMayDrop
    /\ pc' = "loop"
    /\ timer' = 0
    /\ caught' = "none"
    /\ NoCallback
    /\ UNCHANGED <<manager, exc, saying, history, lifecycle>>

EndSessionDone_swallowing_the_error ==
    /\ pc = "end_session"
    /\ CallEnds
    /\ RoomMayDrop
    /\ pc' = "returned"
    /\ timer' = 0
    /\ ends' = IF ends < 2 THEN ends + 1 ELSE ends
    /\ NoCallback
    /\ UNCHANGED <<manager, exc, saying, history, session, closing, caught>>

\* finally: await session.end(), whose errors are swallowed.  Then entrypoint
\* returns, or its except clause runs: disconnect if connected, then raise.
EndSessionDone ==
    /\ pc = "end_session"
    /\ CallEnds
    /\ RoomMayDrop
    /\ pc' = IF ~exc THEN "returned"
             ELSE IF connection_state' = "connected" THEN "except_disconnect"
             ELSE "raised"
    /\ timer' = IF exc /\ connection_state' = "connected" THEN MaxCallTime ELSE 0
    /\ ends' = IF ends < 2 THEN ends + 1 ELSE ends
    /\ NoCallback
    /\ UNCHANGED <<manager, exc, saying, history, session, closing, caught>>

\* except Exception: await ctx.room.disconnect() (errors swallowed); raise
ExceptDisconnectDone ==
    /\ pc = "except_disconnect"
    /\ CallEnds
    /\ RoomMayDrop
    /\ pc' = "raised"
    /\ timer' = 0
    /\ NoCallback
    /\ UNCHANGED <<manager, exc, saying, history, lifecycle, caught>>

Next ==
    \/ on_user_started_speaking
    \/ on_user_stopped_speaking
    \/ on_agent_started_speaking
    \/ on_agent_stopped_speaking
    \/ CreateSessionReturns
    \/ CreateSessionRaises
    \/ StartReturns
    \/ StartRaises
    \/ GreetingReturns
    \/ GreetingRaises
    \/ LoopHead
    \/ WarningReturns
    \/ WarningRaises
    \/ CheckTimeout
    \/ ClosingReturns
    \/ ClosingRaises
    \/ GraceSleepDone
    \/ DisconnectReturns
    \/ DisconnectRaises
    \/ HealthSleepDone
    \/ BackoffDone
    \/ EndSessionDone
    \/ ExceptDisconnectDone

Spec == Init /\ [][Next]_vars

\* No speaking event is delivered, no call fails and the room stays connected
\* until the program disconnects it.  The asyncio loop runs the coroutine
\* whenever it can continue.
StaysConnected == connection_state' = connection_state \/ pc = "disconnect"

NextQuiet ==
    \/ CreateSessionReturns /\ StaysConnected
    \/ StartReturns /\ StaysConnected
    \/ GreetingReturns /\ StaysConnected
    \/ LoopHead /\ StaysConnected
    \/ WarningReturns /\ StaysConnected
    \/ CheckTimeout /\ StaysConnected
    \/ ClosingReturns /\ StaysConnected
    \/ GraceSleepDone /\ StaysConnected
    \/ DisconnectReturns /\ StaysConnected
    \/ HealthSleepDone /\ StaysConnected
    \/ EndSessionDone /\ StaysConnected

SpecQuiet == Init /\ [][NextQuiet]_vars /\ WF_vars(NextQuiet)

\* The user never speaks, no call fails, the room stays connected, and the only
\* agent speech is that of the texts the program itself says: during each
\* session.say the session delivers agent_started_speaking and then
\* agent_stopped_speaking before the call returns.
SayPcs == {"greeting", "say_warning", "say_closing"}

SpeechDone == event = "agent_stopped_speaking"

NextOwnSpeech ==
    \/ CreateSessionReturns /\ StaysConnected
    \/ StartReturns /\ StaysConnected
    \/ on_agent_started_speaking /\ pc \in SayPcs /\ event = "none"
    \/ on_agent_stopped_speaking /\ pc \in SayPcs /\ event = "agent_started_speaking"
    \/ GreetingReturns /\ SpeechDone /\ StaysConnected
    \/ LoopHead /\ StaysConnected
    \/ WarningReturns /\ SpeechDone /\ StaysConnected
    \/ CheckTimeout /\ StaysConnected
    \/ ClosingReturns /\ SpeechDone /\ StaysConnected
    \/ GraceSleepDone /\ StaysConnected
    \/ DisconnectReturns /\ StaysConnected
    \/ HealthSleepDone /\ StaysConnected
    \/ EndSessionDone /\ StaysConnected

SpecOwnSpeech == Init /\ [][NextOwnSpeech]_vars /\ WF_vars(NextOwnSpeech)

\* Every awaited call of the loop returns (none raises) and every sleep ends;
\* the speaking events, a loss of the connection and a failing session
\* creation, session.start or greeting remain free.  The asyncio loop resumes
\* the coroutine when what it awaits has ended.
CoroutineStep ==
    \/ CreateSessionReturns
    \/ CreateSessionRaises
    \/ StartReturns
    \/ StartRaises
    \/ GreetingReturns
    \/ GreetingRaises
    \/ LoopHead
    \/ WarningReturns
    \/ CheckTimeout
    \/ ClosingReturns
    \/ GraceSleepDone
    \/ DisconnectReturns
    \/ HealthSleepDone
    \/ EndSessionDone
    \/ ExceptDisconnectDone

NextReturning ==
    \/ on_user_started_speaking
    \/ on_user_stopped_speaking
    \/ on_agent_started_speaking
    \/ on_agent_stopped_speaking
    \/ CoroutineStep

SpecReturning == Init /\ [][NextReturning]_vars /\ WF_vars(CoroutineStep)

\* ================================================================ claims
\* The vocabulary of the specification, written from its words.
idleTime == now - last_interaction_time
sessionTime == now - session_start_time
NobodySpeaking == ~is_agent_speaking /\ ~is_user_speaking
WarningCondition == idleTime >= WARNING_TIME /\ ~warning_sent /\ NobodySpeaking
IdleTermination == idleTime >= IDLE_TIMEOUT /\ NobodySpeaking
TerminationCondition == IdleTermination \/ sessionTime >= SESSION_TIMEOUT
\* a step in which session.say is called with the warning / with a closing message
WarningEmitted == saying' = WARNING /\ saying # WARNING
ClosingEmitted == saying' \in {IDLE_CLOSING, MAX_CLOSING} /\ saying \notin {IDLE_CLOSING, MAX_CLOSING}
\* the loop evaluates the warning condition
WarningPoll == pc = "loop" /\ connection_state = "connected"
\* the loop evaluates the termination condition
TerminationPoll == pc = "check_timeout"

\* C1: at every poll the warning is said exactly when idle time >= WARNING_TIME,
\* warning_sent is false and nobody is speaking; saying it sets warning_sent; it
\* is said at no other place, and never while a speaking flag is true.
C1_WarningExactlyWhenDue ==
    [][ /\ WarningPoll => (WarningEmitted <=> WarningCondition)
        /\ WarningEmitted => /\ WarningPoll
                             /\ warning_sent'
                             /\ NobodySpeaking
                             /\ pc' = "say_warning" ]_vars

C1_Witness ==
    /\ pc = "say_warning"
    /\ saying = WARNING
    /\ warning_sent
    /\ idleTime >= WARNING_TIME
    /\ NobodySpeaking

\* C2: at every poll termination is triggered exactly when (idle time >=
\* IDLE_TIMEOUT and nobody is speaking) or session time >= SESSION_TIMEOUT; a
\* closing message is then said, and once it is said the loop sleeps
\* GRACEFUL_DELAY, disconnects the room and stops.  A poll at which neither the
\* warning nor the termination condition holds says nothing, disconnects
\* nothing and sleeps HEALTH_CHECK_INTERVAL.
C2_TerminationExactlyWhenDue ==
    [][ /\ TerminationPoll => (ClosingEmitted <=> TerminationCondition)
        /\ ClosingEmitted => (TerminationPoll /\ pc' = "say_closing")
        /\ (WarningPoll /\ ~WarningCondition) =>
               (pc' = "check_timeout" /\ saying' = saying
                /\ connection_state' = connection_state)
        /\ (TerminationPoll /\ ~TerminationCondition) =>
               (pc' = "health_sleep" /\ timer' = HEALTH_CHECK_INTERVAL
                /\ saying' = "none" /\ connection_state' = connection_state)
        /\ (pc = "say_closing" /\ pc' \notin {"say_closing", "backoff"}) =>
               (pc' = "grace_sleep" /\ timer' = GRACEFUL_DELAY)
        /\ (pc = "grace_sleep" /\ pc' # "grace_sleep") =>
               (pc' = "disconnect" /\ now' = now + timer)
        /\ (pc = "disconnect" /\ pc' \notin {"disconnect", "backoff"}) =>
               (connection_state' = "disconnected" /\ pc' \notin LoopPcs)
        /\ (pc' = "disconnect" /\ pc # "disconnect") => pc = "grace_sleep"
        /\ (pc' = "grace_sleep" /\ pc # "grace_sleep") => pc = "say_closing" ]_vars

C2_Witness ==
    /\ pc = "disconnect"
    /\ connection_state = "connected"
    /\ sessionTime < SESSION_TIMEOUT

\* C3: the maximal session duration is a ceiling whatever the speaking events:
\* a poll at which session time >= SESSION_TIMEOUT triggers termination, also
\* with a speaking flag set or idle time 0; the loop goes to sleep only below
\* SESSION_TIMEOUT, so the next poll comes less than HEALTH_CHECK_INTERVAL
\* after SESSION_TIMEOUT, and every poll reaches the termination check unless
\* saying the warning fails.
C3_MaxDurationIsCeiling ==
    [][ /\ (TerminationPoll /\ sessionTime >= SESSION_TIMEOUT) =>
               (ClosingEmitted /\ pc' = "say_closing")
        /\ (pc' = "health_sleep" /\ pc # "health_sleep") => sessionTime < SESSION_TIMEOUT
        /\ (pc = "health_sleep" /\ pc' # "health_sleep") =>
               (pc' = "loop" /\ now' - session_start_time < SESSION_TIMEOUT + HEALTH_CHECK_INTERVAL)
        /\ WarningPoll => pc' \in {"check_timeout", "say_warning"}
        /\ (pc = "say_warning" /\ pc' # "say_warning") => pc' \in {"check_timeout", "backoff"} ]_vars

C3_Witness ==
    /\ pc = "say_closing"
    /\ saying = MAX_CLOSING
    /\ is_user_speaking
    /\ last_event_time < now
    /\ idleTime < HEALTH_CHECK_INTERVAL

\* C4: between two consecutive updates of last_interaction_time the warning is
\* said at most once.
C4_OneWarningPerIdlePeriod == warnings <= 1

C4_Witness ==
    /\ WarningPoll
    /\ warnings = 1
    /\ warning_sent
    /\ NobodySpeaking
    /\ idleTime >= WARNING_TIME + HEALTH_CHECK_INTERVAL

C6_ClosingMessageNamesCause ==
    [][ ClosingEmitted =>
            /\ saying' = IDLE_CLOSING => IdleTermination
            /\ (sessionTime >= SESSION_TIMEOUT /\ ~IdleTermination) => saying' = MAX_CLOSING ]_vars

\* C7: right after any of the four callbacks last_interaction_time is the time
\* of that event and warning_sent is false; started speaking sets the flag of
\* its party, stopped speaking clears it.
C7_EventResetsTimer ==
    event # "none" =>
        /\ last_interaction_time = last_event_time
        /\ last_event_time = now
        /\ ~warning_sent
        /\ event = "user_started_speaking" => is_user_speaking
        /\ event = "user_stopped_speaking" => ~is_user_speaking
        /\ event = "agent_started_speaking" => is_agent_speaking
        /\ event = "agent_stopped_speaking" => ~is_agent_speaking

C7_Witness ==
    /\ pc = "say_warning"
    /\ event = "user_started_speaking"
    /\ late_event
    /\ is_user_speaking
    /\ ~warning_sent
    /\ last_interaction_time = now

\* C8: in every state warning_sent implies that nobody is speaking and that
\* idle time >= WARNING_TIME; every speaking event resets warning_sent, so
\* warning_sent is false in the state a callback leaves.
C8_WarningSentInvariant ==
    warning_sent => /\ NobodySpeaking
                    /\ idleTime >= WARNING_TIME
                    /\ event = "none"

C8_Witness ==
    /\ warning_sent
    /\ pc = "health_sleep"
    /\ idleTime >= WARNING_TIME

\* C9: a speaking event that comes when WARNING_TIME <= idle time < IDLE_TIMEOUT
\* restarts the idle timer; below SESSION_TIMEOUT termination is triggered only
\* when nobody is speaking and IDLE_TIMEOUT has passed since the most recent
\* speaking event.
C9_EventRestartsIdleTimer ==
    [][ /\ late_event' => /\ last_interaction_time' = now'
                          /\ ~IdleTermination'
        /\ (ClosingEmitted /\ sessionTime < SESSION_TIMEOUT) =>
               /\ NobodySpeaking
               /\ last_event_time = -1 \/ now - last_event_time >= IDLE_TIMEOUT ]_vars

C9_Witness ==
    /\ late_event
    /\ pc = "health_sleep"
    /\ last_interaction_time = now
    /\ sessionTime < SESSION_TIMEOUT

\* C10: an error raised by a call inside the loop (saying a message,
\* disconnecting) is caught in the loop: the loop sleeps BACKOFF_DELAY and polls
\* again; the loop is left only when the room is no longer connected or the
\* disconnect has returned, never with an exception.
C10_LoopSurvivesErrors ==
    [][ /\ pc \in LoopPcs => (~exc' /\ pc' \notin {"raised", "except_disconnect", "returned"})
        /\ (pc \in LoopPcs /\ pc' \notin LoopPcs) =>
               \/ pc = "loop" /\ connection_state # "connected"
               \/ pc = "disconnect" /\ connection_state' = "disconnected"
        /\ (pc \in {"say_warning", "say_closing", "disconnect"} /\ pc' # pc) =>
               pc' \in {"check_timeout", "grace_sleep", "end_session", "backoff"}
        /\ (pc' = "backoff" /\ pc # "backoff") => timer' = BACKOFF_DELAY
        /\ (pc = "backoff" /\ pc' # "backoff") => (pc' = "loop" /\ now' = now + timer) ]_vars

C10_Witness ==
    /\ pc = "backoff"
    /\ connection_state = "connected"
    /\ ~exc

\* C11 (as stated): no error is re-raised to the caller of entrypoint, whatever
\* operation fails.
C11_NoErrorReachesCaller == pc # "raised"

\* C11 (amended): an error of a call inside the loop is never propagated; an
\* error of the session creation, of session.start or of the greeting ends the
\* session, disconnects the room if it is still connected and is then re-raised
\* to the caller; entrypoint returns normally only when no such error occurred.
C11_SetupErrorsReachCaller ==
    [][ /\ (exc' /\ ~exc) => pc \in {"create", "start", "greeting"}
        /\ (pc \in {"create", "start", "greeting"} /\ pc' \notin {"start", "greeting", "loop"}) => exc'
        /\ (exc /\ pc' # pc) => pc' \in {"except_disconnect", "raised"}
        /\ (pc' = "raised" /\ pc # "raised") =>
               (exc /\ (pc = "except_disconnect" \/ connection_state' # "connected"))
        /\ pc' = "returned" => ~exc' ]_vars

C11_Witness ==
    /\ pc = "raised"
    /\ exc
    /\ session = "live"
    /\ ends = 1
    /\ closing = "none"

\* C12 (as stated): when the disconnect call made after the closing message
\* raises, the error is not propagated and termination still completes: the
\* loop does not poll again and the session ends.
C12_DisconnectErrorEndsSession ==
    [][ (pc = "disconnect" /\ pc' # "disconnect") => (~exc' /\ pc' = "end_session") ]_vars

\* C12 (amended): when the disconnect call made after the closing message
\* raises, the error is not propagated: the loop catches it, sleeps
\* BACKOFF_DELAY and polls again, saying a closing message again whenever the
\* termination condition holds at a poll; the loop is then left only through a
\* later shutdown or when the room is found not connected.
C12_DisconnectErrorIsRetried ==
    [][ /\ (pc = "disconnect" /\ pc' \notin {"disconnect", "end_session"}) =>
               (pc' = "backoff" /\ caught' = "disconnect" /\ ~exc' /\ timer' = BACKOFF_DELAY)
        /\ (pc = "disconnect" /\ pc' = "end_session") => connection_state' = "disconnected"
        /\ (caught = "disconnect" /\ pc' # pc) => (pc' = "loop" /\ now' = now + timer)
        /\ (closing = "failed" /\ WarningPoll) => pc' \in {"check_timeout", "say_warning"}
        /\ (closing = "failed" /\ TerminationPoll) => (ClosingEmitted <=> TerminationCondition)
        /\ (closing = "failed" /\ pc \in LoopPcs /\ pc' \notin LoopPcs) =>
               (pc = "loop" /\ connection_state # "connected") ]_vars

C12_Witness ==
    /\ pc = "backoff"
    /\ caught = "disconnect"
    /\ closing = "failed"
    /\ connection_state = "connected"
    /\ TerminationCondition

\* C13 (as stated): once the connection state is no longer "connected" the
\* monitor says no warning and no closing message and requests no disconnect.
C13_NothingAfterConnectionLoss ==
    [][ connection_state # "connected" =>
            /\ ~WarningEmitted
            /\ ~ClosingEmitted
            /\ ~(pc' = "disconnect" /\ pc # "disconnect") ]_vars

\* C13 (amended): the connection state is read at the start of every poll, and a
\* poll that starts with the room not connected says nothing, requests no
\* disconnect and leaves the loop, whatever the timers say; no warning is said
\* once the room is not connected.  A poll already begun when the connection is
\* lost is completed: the termination check is reached with the room not
\* connected only from the await of the warning.
C13_LoopStopsAtNextPoll ==
    [][ /\ (pc = "loop" /\ connection_state # "connected") =>
               /\ pc' = "end_session"
               /\ ~WarningEmitted /\ ~ClosingEmitted
               /\ UNCHANGED <<manager, saying, closing, connection_state>>
        /\ WarningEmitted => connection_state = "connected"
        /\ (pc' = "check_timeout" /\ connection_state' # "connected") => pc = "say_warning" ]_vars

C13_Witness ==
    /\ pc = "end_session"
    /\ connection_state = "disconnected"
    /\ closing = "none"
    /\ ~exc
    /\ TerminationCondition

C15_SessionStartAndOtherFlagUnchanged ==
    [][ /\ session_start_time' = session_start_time
        /\ event' \in {"user_started_speaking", "user_stopped_speaking"} =>
               is_agent_speaking' = is_agent_speaking
        /\ event' \in {"agent_started_speaking", "agent_stopped_speaking"} =>
               is_user_speaking' = is_user_speaking ]_vars

C15_Witness ==
    /\ event = "agent_stopped_speaking"
    /\ is_user_speaking
    /\ pc \in LoopPcs
    /\ session_start_time = 0
    /\ last_interaction_time > WARNING_TIME

\* C16: within a poll the warning is evaluated before the termination: when
\* both conditions hold at a poll the warning is said first and a closing
\* message is said only at the termination check that follows the warning; a
\* shutdown is always closing message, then the sleep of GRACEFUL_DELAY, then
\* the disconnect request, and the loop requests no disconnect that a closing
\* message has not preceded.
C16_WarningBeforeClosing ==
    [][ /\ (WarningPoll /\ WarningCondition /\ TerminationCondition) =>
               (WarningEmitted /\ ~ClosingEmitted /\ closing' = closing)
        /\ ClosingEmitted => (pc = "check_timeout" /\ saying = "none")
        /\ (pc' = "check_timeout" /\ pc # "check_timeout") =>
               \/ pc = "loop" /\ ~WarningCondition
               \/ pc = "say_warning" /\ saying = WARNING
        /\ (pc' = "grace_sleep" /\ pc # "grace_sleep") =>
               (pc = "say_closing" /\ saying \in {IDLE_CLOSING, MAX_CLOSING}
                /\ timer' = GRACEFUL_DELAY)
        /\ (pc' = "disconnect" /\ pc # "disconnect") =>
               (pc = "grace_sleep" /\ now' = now + timer
                /\ closing \in {"said", "repeated"}) ]_vars

C16_Witness ==
    /\ pc = "say_closing"
    /\ saying = MAX_CLOSING
    /\ warning_sent
    /\ warnings = 1
    /\ idleTime >= WARNING_TIME
    /\ idleTime <= WARNING_TIME + MaxCallTime
    /\ NobodySpeaking

\* C17: when the user stays silent and the only agent speaking events are those
\* of the texts the monitor says itself, the session is ended by the idle
\* timeout: the closing message said is the idle one, and it is said before the
\* session reaches SESSION_TIMEOUT.
C17_OwnSpeechStillIdlesOut ==
    [][ ClosingEmitted => (saying' = IDLE_CLOSING /\ sessionTime < SESSION_TIMEOUT) ]_vars

\* C18: once a poll has found the termination condition to hold, the shutdown
\* is not cancelled by speaking events: an event that comes while the closing
\* message is said, during the sleep of GRACEFUL_DELAY or during the disconnect
\* changes neither the position of the loop nor the length of the wait, and
\* unless a call raises the loop goes from the closing message to the sleep, to
\* the disconnect and out of the loop with the room disconnected, whatever the
\* timers and flags have become.
C18_ShutdownIsNotCancelled ==
    [][ /\ (TerminationPoll /\ TerminationCondition) => pc' = "say_closing"
        /\ (event' # "none" /\ pc \in {"say_closing", "grace_sleep", "disconnect"}) =>
               /\ pc' = pc
               /\ now' + timer' = now + timer
               /\ UNCHANGED <<saying, closing, connection_state, exc>>
        /\ (pc = "say_closing" /\ pc' \notin {"say_closing", "backoff"}) => pc' = "grace_sleep"
        /\ (pc = "grace_sleep" /\ pc' # "grace_sleep") => pc' = "disconnect"
        /\ (pc = "disconnect" /\ pc' \notin {"disconnect", "backoff"}) =>
               (pc' = "end_session" /\ connection_state' = "disconnected" /\ ~exc') ]_vars

C18_Witness ==
    /\ pc = "disconnect"
    /\ closing = "said"
    /\ is_user_speaking
    /\ last_event_time < now
    /\ idleTime <= GRACEFUL_DELAY
    /\ sessionTime < SESSION_TIMEOUT

\* C19 (as stated): in every execution, also when a say or a disconnect raises
\* and the loop retries, at most one closing message is said and the loop
\* requests the disconnect at most once.  (The loop requests a disconnect only
\* after a closing message of the same poll, so both hold exactly when no
\* closing message is said after an earlier one.)
C19_AtMostOneClosing == closing # "repeated"

\* C19 (amended): at most one closing message and one disconnect request per
\* shutdown: a closing message is said after an earlier one only when the say or
\* the disconnect of the earlier shutdown has raised and was caught by the loop;
\* a disconnect request follows a closing message of the same shutdown, and
\* after a disconnect that returned nothing more is said or requested.
C19_OneClosingPerShutdown ==
    [][ /\ ClosingEmitted => closing \in {"none", "failed"}
        /\ (closing' = "failed" /\ closing # "failed") =>
               (pc \in {"say_closing", "disconnect"} /\ pc' = "backoff" /\ caught' = pc)
        /\ (pc' = "disconnect" /\ pc # "disconnect") => closing \in {"said", "repeated"}
        /\ (pc = "disconnect" /\ pc' # "disconnect") =>
               (pc' = "end_session" \/ closing' = "failed")
        /\ pc \in {"end_session", "except_disconnect", "returned", "raised"} =>
               (~ClosingEmitted /\ ~WarningEmitted /\ pc' \notin LoopPcs) ]_vars

C19_Witness ==
    /\ pc = "disconnect"
    /\ closing = "repeated"
    /\ connection_state = "connected"
    /\ caught = "none"

\* C20: when the awaited calls of the loop return and time advances, every
\* session ends: entrypoint returns or raises.  On every way out after the
\* session was created (shutdown, lost connection, failing start or greeting)
\* session.end() has been awaited exactly once, and its outcome changes nothing:
\* entrypoint returns unless an earlier error is propagating.  When the
\* creation of the session failed there is no session to end.
EndedOnce ==
    /\ pc \in {"returned", "raised", "except_disconnect"} =>
           ends = IF session = "live" THEN 1 ELSE 0
    /\ pc \notin {"returned", "raised", "except_disconnect"} => ends = 0
    /\ pc = "returned" => (session = "live" /\ ~exc)

C20_SessionEndsAndIsEndedOnce ==
    /\ <>(pc \in {"returned", "raised"})
    /\ []EndedOnce

C20_Witness ==
    /\ pc = "returned"
    /\ ends = 1
    /\ session = "live"
    /\ closing = "said"
    /\ connection_state = "disconnected"

====
